---- MODULE Spec2Model ----
(***************************************************************************)
(* A model of ca2a (src/ca2a.py): the command-line item parser             *)
(* (parse_items) and the call dispatcher (main, Client.invoke,             *)
(* Client.show_request, Client.show_response).                             *)
(*                                                                         *)
(* A token is a sequence of one-character strings.  The transport          *)
(* (a2a.client.A2AClient over httpx) and the protocol type layer           *)
(* (a2a.types) are external: what they return is chosen by the             *)
(* environment at the step that calls them.                                *)
(***************************************************************************)
EXTENDS Integers, Sequences, FiniteSets, TLC

\* ------------------------------------------------------------------ bounds

\* Longest command-line token.
MaxTokenLen == 4
\* Most tokens on one command line.
MaxItems == 2
\* Most envelopes one streaming call delivers before end-of-stream.
MaxStream == 2

\* ------------------------------------------------------------------ inputs

\* A key character, a digit, and the two separator characters.
Chars == {"a", "1", ":", "="}

Tokens == UNION {[1..n -> Chars] : n \in 0..MaxTokenLen}

\* The well-formed tokens that surround the token under study, by their
\* position among them: a string parameter, a header, a string parameter, ...
Sample(k) == IF k % 2 = 1 THEN <<"a", "=", "1">> ELSE <<"1", ":", "a">>

SampleRow(from, to) == [k \in 1..(to - from + 1) |-> Sample(from + k - 1)]

\* A command line: any one token, with i well-formed tokens before it and j
\* after it; or no token at all.
ItemLists ==
  {<< >>} \cup
  {SampleRow(1, c[1]) \o <<t>> \o SampleRow(c[1] + 1, c[1] + c[2]) :
     t \in Tokens,
     c \in {d \in (0..(MaxItems - 1)) \X (0..(MaxItems - 1)) : d[1] + d[2] <= MaxItems - 1}}

\* METHODS, and one method name outside it.
METHODS == {"message/send", "message/stream"}

MethodArgs == METHODS \cup {"tasks/get"}

\* ------------------------------------------------------------------ values

StrVal(s) == [kind |-> "str", str |-> s, num |-> 0]

NumVal(n) == [kind |-> "num", str |-> << >>, num |-> n]

EmptyDict == << >>

DictSet(d, k, v) == [x \in (DOMAIN d) \cup {k} |-> IF x = k THEN v ELSE d[x]]

\* ------------------------------------------------------------------ parse_items

\* The alternatives of the separator group, in the order the pattern lists them.
Seps == << <<"=">>, <<":", "=">>, <<":">> >>

\* ^([^:=]+)(=|:=|:)(.+)$ with a key of n characters and the s-th alternative:
\* the key has no ':' or '=', the separator follows it, and at least one
\* character (any character: DOTALL) is left for the value.
Matches(item, n, s) ==
  /\ n >= 1
  /\ n + Len(Seps[s]) < Len(item)
  /\ \A i \in 1..n : item[i] \notin {":", "="}
  /\ SubSeq(item, n + 1, n + Len(Seps[s])) = Seps[s]

Candidates(item) ==
  {c \in (1..Len(item)) \X (1..Len(Seps)) : Matches(item, c[1], c[2])}

\* The match the backtracking matcher returns: the longest key first (greedy
\* +), then the first alternative of the group that lets the rest match.
PatternMatch(item) ==
  LET cands == Candidates(item)
  IN IF cands = {}
       THEN [ok |-> FALSE, key |-> << >>, sep |-> << >>, value |-> << >>]
       ELSE LET c == CHOOSE x \in cands :
                       \A y \in cands :
                         x[1] > y[1] \/ (x[1] = y[1] /\ x[2] <= y[2])
            IN [ok    |-> TRUE,
                key   |-> SubSeq(item, 1, c[1]),
                sep   |-> Seps[c[2]],
                value |-> SubSeq(item, c[1] + Len(Seps[c[2]]) + 1, Len(item))]

\* json.loads over Chars: the only JSON documents are the numbers 1, 11, ...
RECURSIVE JsonNumber(_)
JsonNumber(v) ==
  IF Len(v) = 0 THEN 0 ELSE 10 * JsonNumber(SubSeq(v, 1, Len(v) - 1)) + 1

JsonLoads(v) ==
  IF Len(v) > 0 /\ \A i \in 1..Len(v) : v[i] = "1"
    THEN [ok |-> TRUE, val |-> NumVal(JsonNumber(v))]
    ELSE [ok |-> FALSE, val |-> NumVal(0)]

\* parse with the cases "=" and ":" exchanged.
ParseOneSwapped(item, p, h) ==
  LET m == PatternMatch(item)
  IN IF ~m.ok
       THEN [err |-> "InvalidItem", params |-> p, headers |-> h, wrote |-> {}, m |-> m]
     ELSE IF m.sep = <<":">>
       THEN [err |-> "none", params |-> DictSet(p, m.key, StrVal(m.value)),
             headers |-> h, wrote |-> {"params"}, m |-> m]
     ELSE IF m.sep = <<":", "=">>
       THEN IF JsonLoads(m.value).ok
              THEN [err |-> "none", params |-> DictSet(p, m.key, JsonLoads(m.value).val),
                    headers |-> h, wrote |-> {"params"}, m |-> m]
              ELSE [err |-> "InvalidLiteralValue", params |-> p, headers |-> h,
                    wrote |-> {}, m |-> m]
     ELSE [err |-> "none", params |-> p,
           headers |-> DictSet(h, m.key, StrVal(m.value)), wrote |-> {"headers"}, m |-> m]

\* parse(item) applied to the maps p (params) and h (headers).
ParseOne(item, p, h) ==
  LET m == PatternMatch(item)
  IN IF ~m.ok
       THEN [err |-> "InvalidItem", params |-> p, headers |-> h, wrote |-> {}, m |-> m]
     ELSE IF m.sep = <<"=">>
       THEN [err |-> "none", params |-> DictSet(p, m.key, StrVal(m.value)),
             headers |-> h, wrote |-> {"params"}, m |-> m]
     ELSE IF m.sep = <<":", "=">>
       THEN IF JsonLoads(m.value).ok
              THEN [err |-> "none", params |-> DictSet(p, m.key, JsonLoads(m.value).val),
                    headers |-> h, wrote |-> {"params"}, m |-> m]
              ELSE [err |-> "InvalidLiteralValue", params |-> p, headers |-> h,
                    wrote |-> {}, m |-> m]
     ELSE [err |-> "none", params |-> p,
           headers |-> DictSet(h, m.key, StrVal(m.value)), wrote |-> {"headers"}, m |-> m]

\* ------------------------------------------------------------------ rendering

Label(text) == [kind |-> "label", variant |-> text, body |-> 0]

RequestJson(m) == [kind |-> "request", variant |-> m, body |-> 0]

\* An envelope of the transport: its variant and its payload.
Variants == {"success", "error", "other"}

Envelope(v, n) == [kind |-> "envelope", variant |-> v, body |-> n]

\* print_json: one serialized object written to stdout.
print_json(out, obj) == Append(out, obj)

\* get_result with the last case returning the response instead of raising.
get_result_lenient(resp) ==
  IF resp.variant = "error"
    THEN [ok |-> TRUE, obj |-> [kind |-> "error", variant |-> resp.variant, body |-> resp.body]]
    ELSE [ok |-> TRUE, obj |-> [kind |-> "result", variant |-> resp.variant, body |-> resp.body]]

\* get_result: the error of an error response, the result of a success
\* response, ValueError for anything else.
get_result(resp) ==
  IF resp.variant = "error"
    THEN [ok |-> TRUE, obj |-> [kind |-> "error", variant |-> resp.variant, body |-> resp.body]]
  ELSE IF resp.variant = "success"
    THEN [ok |-> TRUE, obj |-> [kind |-> "result", variant |-> resp.variant, body |-> resp.body]]
  ELSE [ok |-> FALSE, obj |-> resp]

\* The match statement without its default case: any other method is sent.
MatchCaseNoDefault(m) ==
  IF m = "message/stream" THEN "stream" ELSE "send"

\* The case of Client.invoke's match statement that a method selects.
MatchCase(m) ==
  IF m = "message/send" THEN "send"
  ELSE IF m = "message/stream" THEN "stream"
  ELSE "unsupported"

\* ------------------------------------------------------------------ state

VARIABLES
  pc,          \* position of the program
  method,      \* args.method / Client.method
  verbose,     \* args.verbose
  items,       \* args.items
  idx,         \* items parse_items has processed
  params,      \* parse_items' local params
  headers,     \* parse_items' local headers
  parsed,      \* per processed item: the groups matched and the map written
  ret,         \* main's (params, headers), once parse_items has returned
  client,      \* the Client main (or a caller) constructed
  httpxOpen,   \* the httpx.AsyncClient of invoke exists and is not closed
  request,     \* the request invoke constructed
  validated,   \* outcome of MessageSendParams.model_validate
  sendCalls,   \* calls of client.send_message
  streamCalls, \* calls of client.send_message_streaming
  arrived,     \* envelopes received from the transport, in order
  output,      \* what was printed to stdout, in order
  err          \* the error the program ended with

vars == <<pc, method, verbose, items, idx, params, headers, parsed, ret, client,
          httpxOpen, request, validated, sendCalls, streamCalls, arrived, output, err>>

NoClient == [built |-> FALSE, params |-> EmptyDict, headers |-> EmptyDict]

NoRet == [assigned |-> FALSE, params |-> EmptyDict, headers |-> EmptyDict]

NoRequest == [built |-> FALSE, method |-> "", params |-> EmptyDict]

\* Maps a caller that constructs Client directly may pass.
DirectDicts == {EmptyDict, DictSet(EmptyDict, <<"a">>, StrVal(<<"1">>))}

InitCommon ==
  /\ method \in MethodArgs
  /\ verbose \in BOOLEAN
  /\ idx = 0
  /\ params = EmptyDict
  /\ headers = EmptyDict
  /\ parsed = << >>
  /\ ret = NoRet
  /\ httpxOpen = FALSE
  /\ request = NoRequest
  /\ validated = "unchecked"
  /\ sendCalls = 0
  /\ streamCalls = 0
  /\ arrived = << >>
  /\ output = << >>
  /\ err = "none"

\* The command line: main after parse_args, with its items drawn from lists.
InitMain(lists) ==
  /\ InitCommon
  /\ pc = "main"
  /\ items \in lists
  /\ client = NoClient

\* A caller that constructs a Client itself and calls invoke.
InitDirect ==
  /\ InitCommon
  /\ pc = "built"
  /\ items = << >>
  /\ \E p \in DirectDicts, h \in DirectDicts :
       client = [built |-> TRUE, params |-> p, headers |-> h]

Init == InitMain(ItemLists) \/ InitDirect

\* The command lines of the calls whose progress is checked: well-formed
\* tokens only, and one list that ends in a token without a separator.
CallLists ==
  {SampleRow(1, n) : n \in 0..MaxItems} \cup {SampleRow(1, MaxItems - 1) \o << <<"a">> >>}

FairInit == InitMain(CallLists) \/ InitDirect

\* ------------------------------------------------------------------ main

\* if args.method not in METHODS: parser.error(...)
CheckMethod ==
  /\ pc = "main"
  /\ IF method \notin METHODS
       THEN /\ pc' = "usage_error"
            /\ err' = "UnsupportedMethod"
       ELSE /\ pc' = "parse"
            /\ err' = err
  /\ UNCHANGED <<method, verbose, items, idx, params, headers, parsed, ret, client,
                 httpxOpen, request, validated, sendCalls, streamCalls, arrived, output>>

\* One iteration of `for item in items: parse(item)`; a ValueError leaves
\* parse_items and main reports it with parser.error.
ParseItem ==
  /\ pc = "parse"
  /\ idx < Len(items)
  /\ LET r == ParseOne(items[idx + 1], params, headers)
     IN /\ parsed' = Append(parsed, [key |-> r.m.key, sep |-> r.m.sep,
                                     value |-> r.m.value, wrote |-> r.wrote])
        /\ params' = r.params
        /\ headers' = r.headers
        /\ IF r.err = "none"
             THEN /\ idx' = idx + 1
                  /\ pc' = pc
                  /\ err' = err
             ELSE /\ idx' = idx
                  /\ pc' = "usage_error"
                  /\ err' = r.err
  /\ UNCHANGED <<method, verbose, items, ret, client,
                 httpxOpen, request, validated, sendCalls, streamCalls, arrived, output>>

\* return params, headers; then client = Client(...)
ParseReturn ==
  /\ pc = "parse"
  /\ idx = Len(items)
  /\ ret' = [assigned |-> TRUE, params |-> params, headers |-> headers]
  /\ client' = [built |-> TRUE, params |-> params, headers |-> headers]
  /\ pc' = "built"
  /\ UNCHANGED <<method, verbose, items, idx, params, headers, parsed,
                 httpxOpen, request, validated, sendCalls, streamCalls, arrived, output, err>>

\* ------------------------------------------------------------------ Client.invoke

\* httpx_client = httpx.AsyncClient(...); client = A2AClient(...)
InvokeStart ==
  /\ pc = "built"
  /\ httpxOpen' = TRUE
  /\ pc' = "match"
  /\ UNCHANGED <<method, verbose, items, idx, params, headers, parsed, ret, client,
                 request, validated, sendCalls, streamCalls, arrived, output, err>>

\* case _: raise ValueError("Unsupported method")
MatchUnsupported ==
  /\ pc = "match"
  /\ MatchCase(method) = "unsupported"
  /\ pc' = "failed"
  /\ err' = "UnsupportedMethod"
  /\ UNCHANGED <<method, verbose, items, idx, params, headers, parsed, ret, client,
                 httpxOpen, request, validated, sendCalls, streamCalls, arrived, output>>

\* The params validated only after the request has gone to the transport.
ValidateFailAfterSend ==
  /\ pc = "match"
  /\ MatchCase(method) \in {"send", "stream"}
  /\ validated' = "invalid"
  /\ sendCalls' = sendCalls + 1
  /\ pc' = "failed"
  /\ err' = "RequestShapeInvalid"
  /\ UNCHANGED <<method, verbose, items, idx, params, headers, parsed, ret, client,
                 httpxOpen, request, streamCalls, arrived, output>>

\* MessageSendParams.model_validate(self.params) raises.
ValidateFail ==
  /\ pc = "match"
  /\ MatchCase(method) \in {"send", "stream"}
  /\ validated' = "invalid"
  /\ pc' = "failed"
  /\ err' = "RequestShapeInvalid"
  /\ UNCHANGED <<method, verbose, items, idx, params, headers, parsed, ret, client,
                 httpxOpen, request, sendCalls, streamCalls, arrived, output>>

\* show_request: prints the request when verbose.
show_request(out, req, v) ==
  IF v THEN print_json(Append(out, Label("Request:")), RequestJson(req.method)) ELSE out

\* The params validate; the request is constructed and shown.
BuildRequest ==
  /\ pc = "match"
  /\ MatchCase(method) \in {"send", "stream"}
  /\ validated' = "ok"
  /\ request' = [built |-> TRUE, method |-> method, params |-> client.params]
  /\ output' = show_request(output, request', verbose)
  /\ pc' = MatchCase(method)
  /\ UNCHANGED <<method, verbose, items, idx, params, headers, parsed, ret, client,
                 httpxOpen, sendCalls, streamCalls, arrived, err>>

\* ------------------------------------------------------------------ message/send

\* response = await client.send_message(request): the transport returns one
\* envelope, or raises.
SendMessage ==
  /\ pc = "send"
  /\ sendCalls' = sendCalls + 1
  /\ \/ /\ \E v \in Variants : arrived' = Append(arrived, Envelope(v, Len(arrived) + 1))
        /\ pc' = "show"
        /\ err' = err
     \/ /\ arrived' = arrived
        /\ pc' = "failed"
        /\ err' = "TransportFailure"
  /\ UNCHANGED <<method, verbose, items, idx, params, headers, parsed, ret, client,
                 httpxOpen, request, validated, streamCalls, output>>

\* show_response printing nothing for an error envelope when not verbose.
ShowOneSkipErrors(out, resp, v) ==
  IF v
    THEN [ok |-> TRUE, out |-> print_json(out, resp)]
    ELSE IF get_result(resp).ok
           THEN [ok |-> TRUE,
                 out |-> IF resp.variant = "error" THEN out
                         ELSE print_json(out, get_result(resp).obj)]
           ELSE [ok |-> FALSE, out |-> out]

\* show_response with the verbose branch falling through to the other one.
ShowOneBoth(out, resp, v) ==
  IF get_result(resp).ok
    THEN [ok |-> TRUE,
          out |-> print_json(IF v THEN print_json(out, resp) ELSE out, get_result(resp).obj)]
    ELSE [ok |-> v, out |-> IF v THEN print_json(out, resp) ELSE out]

\* What show_response does with one response object (a unary response, or one
\* chunk of a stream): the raw envelope when verbose, else its result.
ShowOne(out, resp, v) ==
  IF v
    THEN [ok |-> TRUE, out |-> print_json(out, resp)]
    ELSE IF get_result(resp).ok
           THEN [ok |-> TRUE, out |-> print_json(out, get_result(resp).obj)]
           ELSE [ok |-> FALSE, out |-> out]

\* "Response:" is printed first when verbose.
ShowHeader(out, v) == IF v THEN Append(out, Label("Response:")) ELSE out

\* await self.show_response(response, verbose), response not an async iterator.
ShowUnary ==
  /\ pc = "show"
  /\ LET r == ShowOne(ShowHeader(output, verbose), arrived[Len(arrived)], verbose)
     IN /\ output' = r.out
        /\ IF r.ok
             THEN /\ pc' = "done"
                  /\ err' = err
             ELSE /\ pc' = "failed"
                  /\ err' = "UnrecognizedResponse"
  /\ UNCHANGED <<method, verbose, items, idx, params, headers, parsed, ret, client,
                 httpxOpen, request, validated, sendCalls, streamCalls, arrived>>

\* ------------------------------------------------------------------ message/stream

\* response = client.send_message_streaming(request); show_response runs up to
\* its first wait for a chunk.
SendMessageStreaming ==
  /\ pc = "stream"
  /\ streamCalls' = streamCalls + 1
  /\ output' = ShowHeader(output, verbose)
  /\ pc' = "await_chunk"
  /\ UNCHANGED <<method, verbose, items, idx, params, headers, parsed, ret, client,
                 httpxOpen, request, validated, sendCalls, arrived, err>>

\* `async for chunk in response` receives the next envelope.
StreamChunk ==
  /\ pc = "await_chunk"
  /\ Len(arrived) < MaxStream
  /\ \E v \in Variants : arrived' = Append(arrived, Envelope(v, Len(arrived) + 1))
  /\ pc' = "render_chunk"
  /\ UNCHANGED <<method, verbose, items, idx, params, headers, parsed, ret, client,
                 httpxOpen, request, validated, sendCalls, streamCalls, output, err>>

\* The iterator is exhausted: show_response and invoke return.
StreamEnd ==
  /\ pc = "await_chunk"
  /\ pc' = "done"
  /\ UNCHANGED <<method, verbose, items, idx, params, headers, parsed, ret, client,
                 httpxOpen, request, validated, sendCalls, streamCalls, arrived, output, err>>

\* A transport failure answered by calling the transport again.
StreamFailRetry ==
  /\ pc = "await_chunk"
  /\ pc' = "stream"
  /\ UNCHANGED <<method, verbose, items, idx, params, headers, parsed, ret, client,
                 httpxOpen, request, validated, sendCalls, streamCalls, arrived, output, err>>

\* The transport raises while the stream is awaited.
StreamFail ==
  /\ pc = "await_chunk"
  /\ pc' = "failed"
  /\ err' = "TransportFailure"
  /\ UNCHANGED <<method, verbose, items, idx, params, headers, parsed, ret, client,
                 httpxOpen, request, validated, sendCalls, streamCalls, arrived, output>>

\* The body of the loop: the chunk is printed, or get_result raises.
StreamRender ==
  /\ pc = "render_chunk"
  /\ LET r == ShowOne(output, arrived[Len(arrived)], verbose)
     IN /\ output' = r.out
        /\ IF r.ok
             THEN /\ pc' = "await_chunk"
                  /\ err' = err
             ELSE /\ pc' = "failed"
                  /\ err' = "UnrecognizedResponse"
  /\ UNCHANGED <<method, verbose, items, idx, params, headers, parsed, ret, client,
                 httpxOpen, request, validated, sendCalls, streamCalls, arrived>>

\* ------------------------------------------------------------------ the grammar, read off a token

\* These read a token by its text alone, without the matcher.

\* Length of the token's longest prefix free of ':' and '='.
KeyLen(item) ==
  CHOOSE n \in 0..Len(item) :
    /\ \A i \in 1..n : item[i] \notin {":", "="}
    /\ n = Len(item) \/ item[n + 1] \in {":", "="}

KeyOf(item) == SubSeq(item, 1, KeyLen(item))

\* The token is a key immediately followed by the characters of sep.
KeyThen(item, sep) ==
  /\ KeyLen(item) >= 1
  /\ Len(item) >= KeyLen(item) + Len(sep)
  /\ SubSeq(item, KeyLen(item) + 1, KeyLen(item) + Len(sep)) = sep

\* What follows the key and a separator of n characters.
Rest(item, n) == SubSeq(item, KeyLen(item) + n + 1, Len(item))

AllDigits(v) == Len(v) > 0 /\ \A i \in 1..Len(v) : v[i] = "1"

\* No recognised separator after a key, or an invalid literal after ':='.
Malformed(item) ==
  \/ KeyLen(item) = 0
  \/ KeyLen(item) = Len(item)
  \/ KeyThen(item, <<":", "=">>) /\ ~AllDigits(Rest(item, 2))

ParsingOver == method \in METHODS /\ pc \notin {"main", "parse"}

TransportCalls == sendCalls + streamCalls

\* ------------------------------------------------------------------ C1

\* C1: every processed token whose key is immediately followed by ':=' was
\* matched with separator ':=', and wherever the header separator ':' was
\* matched the character after that ':' is not '='.
C1_SeparatorPrecedence ==
  \A i \in 1..Len(parsed) :
    /\ KeyThen(items[i], <<":", "=">>) => parsed[i].sep = <<":", "=">>
    /\ parsed[i].sep = <<":">> => ~KeyThen(items[i], <<":", "=">>)

\* ------------------------------------------------------------------ C2

\* The single token 'k=v' gave params[k] = v and no header k.
ParamStored(item) ==
  /\ ret.assigned
  /\ KeyOf(item) \in DOMAIN ret.params
  /\ ret.params[KeyOf(item)] = StrVal(Rest(item, 1))
  /\ KeyOf(item) \notin DOMAIN ret.headers

\* The single token 'k:v' gave headers[k] = v and no param k.
HeaderStored(item) ==
  /\ ret.assigned
  /\ KeyOf(item) \in DOMAIN ret.headers
  /\ ret.headers[KeyOf(item)] = StrVal(Rest(item, 1))
  /\ KeyOf(item) \notin DOMAIN ret.params

\* Each token of a successfully parsed list wrote to exactly one map.
OneMapEach ==
  ret.assigned => \A i \in 1..Len(parsed) : Cardinality(parsed[i].wrote) = 1

\* C2 as stated: for every key k and every value v, the single token 'k=v'
\* yields params[k] = v and no header k, the single token 'k:v' yields
\* headers[k] = v and no param k, and each token of a parsed list writes to
\* exactly one map.
C2_AsStated ==
  /\ (ParsingOver /\ Len(items) = 1) =>
       /\ KeyThen(items[1], <<"=">>) => ParamStored(items[1])
       /\ KeyThen(items[1], <<":">>) => HeaderStored(items[1])
  /\ OneMapEach

\* C2 (amended): the same for every non-empty value v, and for 'k:v' every
\* non-empty v that does not begin with '='.
C2_DisjointRouting ==
  /\ (ParsingOver /\ Len(items) = 1) =>
       /\ (KeyThen(items[1], <<"=">>) /\ Len(Rest(items[1], 1)) > 0)
            => ParamStored(items[1])
       /\ (KeyThen(items[1], <<":">>) /\ Len(Rest(items[1], 1)) > 0
             /\ Rest(items[1], 1)[1] # "=")
            => HeaderStored(items[1])
  /\ OneMapEach

\* A single token 'k=v' whose value holds separator characters was parsed.
C2_Witness ==
  /\ ParsingOver
  /\ Len(items) = 1
  /\ KeyThen(items[1], <<"=">>)
  /\ Rest(items[1], 1) = <<":", "=">>
  /\ ret.assigned

\* ------------------------------------------------------------------ C3

\* C3: when the list holds a malformed token, parse_items fails at the first
\* one, main never receives a ParamMap or HeaderMap, no Client is built and
\* the transport is never called.
C3_AllOrNothing ==
  \A i \in 1..Len(items) :
    (/\ method \in METHODS
     /\ Malformed(items[i])
     /\ \A j \in 1..(i - 1) : ~Malformed(items[j]))
    => /\ ~ret.assigned
       /\ ~client.built
       /\ TransportCalls = 0
       /\ idx <= i - 1
       /\ ParsingOver => (pc = "usage_error" /\ idx = i - 1)

\* ------------------------------------------------------------------ what was rendered

\* The entries of the output that render an envelope (raw, or its result or
\* error), in the order printed.
IsRendering(e) == e.kind \in {"envelope", "result", "error"}

Rendered == SelectSeq(output, IsRendering)

\* The rendering the call owes envelope e: the raw envelope when verbose, else
\* the payload of its variant.
Owed(e) ==
  IF verbose
    THEN e
    ELSE [kind |-> IF e.variant = "error" THEN "error" ELSE "result",
          variant |-> e.variant, body |-> e.body]

\* Exactly the first k envelopes received have been rendered, in order.
RenderedUpTo(k) ==
  /\ Len(Rendered) = k
  /\ \A i \in 1..k : Rendered[i] = Owed(arrived[i])

Terminal == pc \in {"done", "failed", "usage_error"}

\* ------------------------------------------------------------------ C4

\* C4: for a method outside METHODS the transport is never called, the call
\* never completes, and it ends with the unsupported-method error, through
\* main and through Client.invoke alike.
C4_UnsupportedMethod ==
  method \notin METHODS =>
    /\ TransportCalls = 0
    /\ arrived = << >>
    /\ pc \in {"main", "usage_error", "built", "match", "failed"}
    /\ Terminal => err = "UnsupportedMethod"

\* Client.invoke itself refused the method.
C4_Witness ==
  /\ method \notin METHODS
  /\ pc = "failed"
  /\ httpxOpen
  /\ err = "UnsupportedMethod"

\* ------------------------------------------------------------------ C5

\* C5: no call ends with the HTTP client created in invoke still open.
C5_ConnectionReleased == pc \in {"done", "failed"} => ~httpxOpen

\* ------------------------------------------------------------------ C6

\* Every envelope received so far is rendered, in order, except the one the
\* loop body is about to render.
StreamInOrder ==
  IF pc = "render_chunk"
    THEN Len(arrived) >= 1 /\ RenderedUpTo(Len(arrived) - 1)
    ELSE RenderedUpTo(Len(arrived))

\* C6 as stated: in streaming mode, for every sequence of envelopes and with
\* verbosity on or off, the renderings are those of e1..eN in order, none
\* dropped, and e(i) is rendered before e(i+1) is taken.
C6_AsStated == method = "message/stream" => StreamInOrder

\* C6 (amended): the same, for every sequence of envelopes that, when
\* verbosity is off, holds only success and error envelopes.
C6_StreamOrder ==
  (/\ method = "message/stream"
   /\ verbose \/ \A i \in 1..Len(arrived) : arrived[i].variant # "other")
  => StreamInOrder

\* A stream of an error and then a success envelope was drained, verbosity off.
C6_Witness ==
  /\ method = "message/stream"
  /\ ~verbose
  /\ pc = "done"
  /\ Len(arrived) >= 2
  /\ arrived[1].variant = "error"
  /\ arrived[2].variant = "success"
  /\ Len(Rendered) = Len(arrived)

\* ------------------------------------------------------------------ C7

\* C7: a unary call that returned a success or error envelope and completed
\* made one send_message call and no streaming call, consumed one envelope
\* and rendered exactly that one.
C7_UnaryExactlyOne ==
  (method = "message/send" /\ pc \in {"show", "done"}) =>
    /\ Len(arrived) = 1
    /\ sendCalls = 1
    /\ streamCalls = 0
    /\ (pc = "done" /\ arrived[1].variant \in {"success", "error"}) => RenderedUpTo(1)

\* A unary call returned an error envelope and completed, verbosity on.
C7_Witness ==
  /\ method = "message/send"
  /\ pc = "done"
  /\ verbose
  /\ Len(arrived) = 1
  /\ arrived[1].variant = "error"

\* ------------------------------------------------------------------ C8

\* C8: once the params fail validation the call has failed with the
\* shape-validation error, no request was built or shown, the transport was
\* not called and nothing was rendered.
C8_ShapeInvalid ==
  validated = "invalid" =>
    /\ pc = "failed"
    /\ err = "RequestShapeInvalid"
    /\ ~request.built
    /\ TransportCalls = 0
    /\ arrived = << >>
    /\ output = << >>

\* The params of a verbose streaming call from the command line failed validation.
C8_Witness ==
  /\ validated = "invalid"
  /\ method = "message/stream"
  /\ verbose
  /\ ret.assigned
  /\ pc = "failed"

\* ------------------------------------------------------------------ C9

\* C9: with verbosity off, an envelope that is neither success nor error is
\* the last one consumed, nothing is rendered for it, the renderings of the
\* envelopes before it stay as printed, and the call fails with the
\* unrecognised-response error.
C9_UnrecognizedResponse ==
  \A i \in 1..Len(arrived) :
    (~verbose /\ arrived[i].variant = "other") =>
      /\ i = Len(arrived)
      /\ RenderedUpTo(i - 1)
      /\ pc \in {"show", "render_chunk", "failed"}
      /\ pc = "failed" => err = "UnrecognizedResponse"

\* The second envelope of a stream was unrecognised and the call has failed.
C9_Witness ==
  /\ ~verbose
  /\ method = "message/stream"
  /\ pc = "failed"
  /\ err = "UnrecognizedResponse"
  /\ Len(arrived) = 2
  /\ Len(Rendered) = 1

\* ------------------------------------------------------------------ C10

\* The steps of Idle -> RequestBuilt -> Dispatched -> Draining* -> Done, and
\* those into Failed.
CallEdges ==
  {<<"built", "match">>,
   <<"match", "send">>, <<"match", "stream">>, <<"match", "failed">>,
   <<"send", "show">>, <<"send", "failed">>,
   <<"show", "done">>, <<"show", "failed">>,
   <<"stream", "await_chunk">>,
   <<"await_chunk", "render_chunk">>, <<"await_chunk", "done">>,
   <<"await_chunk", "failed">>,
   <<"render_chunk", "await_chunk">>, <<"render_chunk", "failed">>}

InCall == pc \in {"built", "match", "send", "stream", "show", "await_chunk", "render_chunk"}

\* Done only with every envelope received rendered: the one of a unary call,
\* all of them up to end-of-stream for a streaming call.
DoneAfterRendering ==
  pc = "done" =>
    /\ Len(Rendered) = Len(arrived)
    /\ method = "message/send" => Len(arrived) = 1

\* Nothing happens after Failed.
FailedIsTerminal ==
  pc = "failed" => UNCHANGED <<pc, sendCalls, streamCalls, arrived, output>>

\* C10: every call reaches a terminal state, a call moves only along the
\* steps of the state machine, Done is reached only after every envelope
\* received has been rendered, and no step follows Failed.
C10_StateMachine ==
  /\ InCall ~> Terminal
  /\ [][InCall => (pc' = pc \/ <<pc, pc'>> \in CallEdges)]_vars
  /\ []DoneAfterRendering
  /\ [][FailedIsTerminal]_vars

\* A streaming call was drained to end-of-stream.
C10_Witness ==
  /\ pc = "done"
  /\ method = "message/stream"
  /\ Len(arrived) >= 2
  /\ Len(Rendered) = Len(arrived)

\* ------------------------------------------------------------------ specification

Next ==
  \/ CheckMethod
  \/ ParseItem
  \/ ParseReturn
  \/ InvokeStart
  \/ MatchUnsupported
  \/ ValidateFail
  \/ BuildRequest
  \/ SendMessage
  \/ ShowUnary
  \/ SendMessageStreaming
  \/ StreamChunk
  \/ StreamEnd
  \/ StreamFail
  \/ StreamRender

Spec == Init /\ [][Next]_vars

\* The event loop runs the one task until it returns or raises.
FairSpec == FairInit /\ [][Next]_vars /\ WF_vars(Next)

====
